---- MODULE Spec2Model ----
(***************************************************************************)
(* SportStream (alphapy/sportstream.py): the per-team sequential           *)
(* statistics pass (generate_team_frame), its streak scan (get_streak),    *)
(* and the season loop of main that merges team statistics back into the   *)
(* model frame and computes the home-minus-away deltas; and, of            *)
(* features.py, get_text_features and drop_features.                       *)
(*                                                                         *)
(* A data frame is a function from column names to columns; a column is a  *)
(* sequence of values, row i of the program (0-based) being element i+1.   *)
(* Dates are day numbers.  A missing value (float NaN) is the value NaN;   *)
(* every arithmetic operation and comparison goes through the NaN-aware    *)
(* operators below.  Means are held in fixed point, as Scale times the     *)
(* mean, which is exact for every count of terms the bounds allow.         *)
(***************************************************************************)
EXTENDS Integers, Sequences, FiniteSets, TLC

VARIABLES
    upc,          \* position of a function-level call: "call", "returned", "raised"
    ucall,        \* the call: its function name and arguments
    uret,         \* the value returned by the call
    uarg,         \* the table passed to the call, as the call leaves it
    uerr,         \* the exception the call raised, "none" if it raised none
    pc,           \* position of main
    df,           \* the game table read by read_frame
    rolling_window,  \* game_specs['rolling_window']
    seasons,      \* the seasons main iterates over
    si,           \* number of seasons already processed
    gf,           \* the game frame of the current season
    teams,        \* the keys of gf.groupby([home_team]), in iteration order
    team_frames,  \* team frame of each of these teams
    mf,           \* the model frame of the current season
    cur,          \* merge loop: position in teams and index in the team frame
    ff,           \* the final frame
    train_date,   \* game_specs['train_date']
    predict_date, \* game_specs['predict_date']
    new_train_frame,  \* the training subset of the final frame
    new_test_frame,   \* the prediction subset of the final frame
    written,      \* the write_frame calls made so far, in order
    error         \* the message of the exception main ended with, "" if none

uvars == <<upc, ucall, uret, uarg, uerr>>
svars == <<train_date, predict_date, new_train_frame, new_test_frame, written,
           error>>
mvars == <<pc, df, rolling_window, seasons, si, gf, teams, team_frames, mf, cur,
           ff, svars>>
vars == <<upc, ucall, uret, uarg, uerr, pc, df, rolling_window, seasons, si, gf,
          teams, team_frames, mf, cur, ff, train_date, predict_date,
          new_train_frame, new_test_frame, written, error>>

(***************************************************************************)
(* Bounds of the model                                                     *)
(***************************************************************************)
MaxLen == 4        \* longest boolean series handed to get_streak directly
MaxRows == 3       \* longest partition handed to generate_team_frame directly
MaxWindow == 2     \* largest rolling window of the game configuration
MaxGames == 3      \* most game records in the table main reads
MaxDate == 2       \* game dates of that table are the days 1..MaxDate
MaxSchema == 3     \* most items of a schema handed to add_features directly
MaxFinal == 4      \* most rows of the final frame the split is handed directly
MaxDay == 4        \* game dates of the partitions with days apart are 1..MaxDay
MaxText == 3       \* longest text column handed to get_text_features
MaxLimit == 3      \* largest dummy limit of the model configuration
MaxNgrams == 2     \* largest ngrams_max of the model configuration
MaxCols == 3       \* most columns of a table handed to drop_features
MaxDropRows == 2   \* most rows of such a table
MaxSeason == 2     \* seasons of the tables of several seasons are 1..MaxSeason

(***************************************************************************)
(* Values                                                                  *)
(***************************************************************************)
NaN == 99999
PSEP == "."

isnan(x) == x = NaN
Add(a, b) == IF isnan(a) \/ isnan(b) THEN NaN ELSE a + b
Sub(a, b) == IF isnan(a) \/ isnan(b) THEN NaN ELSE a - b
Neg(a) == IF isnan(a) THEN NaN ELSE 0 - a
Gt(a, b) == ~isnan(a) /\ ~isnan(b) /\ a > b
Lt(a, b) == ~isnan(a) /\ ~isnan(b) /\ a < b
Le(a, b) == ~isnan(a) /\ ~isnan(b) /\ a <= b

RECURSIVE Fact(_)
Fact(n) == IF n <= 1 THEN 1 ELSE n * Fact(n - 1)
\* denominator of the fixed-point means: every count of rows divides it
Scale == Fact(IF MaxRows >= MaxGames THEN MaxRows ELSE MaxGames)

\* pandas sum(): missing values are skipped, the empty sum is 0
RECURSIVE SeriesSum(_)
SeriesSum(s) ==
    IF s = <<>> THEN 0
    ELSE (IF isnan(Head(s)) THEN 0 ELSE Head(s)) + SeriesSum(Tail(s))

\* number of values of a series that are not missing
RECURSIVE SeriesCount(_)
SeriesCount(s) ==
    IF s = <<>> THEN 0
    ELSE (IF isnan(Head(s)) THEN 0 ELSE 1) + SeriesCount(Tail(s))

\* pandas mean(): the mean of the values that are not missing, NaN if none
SeriesMean(s) ==
    IF SeriesCount(s) = 0 THEN NaN
    ELSE (SeriesSum(s) * Scale) \div SeriesCount(s)

\* Series[a:b] of the program, a and b 0-based positions with 0 <= a <= b
Slice(s, a, b) == SubSeq(s, a + 1, b)

Max(a, b) == IF a >= b THEN a ELSE b

\* Series.cumsum(), rows 0..n-1: a missing value stays missing and is skipped
RECURSIVE CumSumTo(_, _)
CumSumTo(s, n) ==
    IF n = 0 THEN <<>>
    ELSE Append(CumSumTo(s, n - 1),
                IF isnan(s[n]) THEN NaN ELSE SeriesSum(SubSeq(s, 1, n)))

\* the series itself, as if cumsum() were left out
NoCumSum(s) == s

CumSum(s) == CumSumTo(s, Len(s))

\* Series.expanding().mean(), min_periods = 1, rows 0..n-1
RECURSIVE ExpandingMeanTo(_, _)
ExpandingMeanTo(s, n) ==
    IF n = 0 THEN <<>>
    ELSE Append(ExpandingMeanTo(s, n - 1), SeriesMean(SubSeq(s, 1, n)))

ExpandingMean(s) == ExpandingMeanTo(s, Len(s))

\* the rolling window of width w that ends at element n
Window(s, w, n) == SubSeq(s, Max(1, n - w + 1), n)

\* Series.rolling(window=w, min_periods=1).sum(), rows 0..n-1
RECURSIVE RollingSumTo(_, _, _)
RollingSumTo(s, w, n) ==
    IF n = 0 THEN <<>>
    ELSE Append(RollingSumTo(s, w, n - 1),
                IF SeriesCount(Window(s, w, n)) = 0 THEN NaN
                ELSE SeriesSum(Window(s, w, n)))

RollingSum(s, w) == RollingSumTo(s, w, Len(s))

\* Series.rolling(window=w, min_periods=1).mean(), rows 0..n-1
RECURSIVE RollingMeanTo(_, _, _)
RollingMeanTo(s, w, n) ==
    IF n = 0 THEN <<>>
    ELSE Append(RollingMeanTo(s, w, n - 1), SeriesMean(Window(s, w, n)))

RollingMean(s, w) == RollingMeanTo(s, w, Len(s))

(***************************************************************************)
(* Frames                                                                  *)
(***************************************************************************)
Columns(frame) == DOMAIN frame
NRows(frame) == IF Columns(frame) = {} THEN 0
                ELSE Len(frame[CHOOSE c \in Columns(frame) : TRUE])
At(frame, col, index) == frame[col][index + 1]
SetAt(frame, col, index, v) == [frame EXCEPT ![col][index + 1] = v]
SetCol(frame, col, series) == (col :> series) @@ frame
EmptyFrame == [c \in {} |-> <<>>]
\* F applied to the value of v, v being evaluated once, before F
With(v, F(_)) == CHOOSE r \in {F(x) : x \in {v}} : TRUE

\* the series of n values v
RECURSIVE Repeat(_, _)
Repeat(v, n) == IF n = 0 THEN <<>> ELSE Append(Repeat(v, n - 1), v)

(***************************************************************************)
(* The schemas                                                             *)
(***************************************************************************)
\* a schema is the sequence of its (name, kind) items, in the order written
sports_dict ==
    << <<"wins", "int">>, <<"losses", "int">>, <<"ties", "int">>,
       <<"days_since_first_game", "int">>,
       <<"days_since_previous_game", "int">>,
       <<"won_on_points", "bool">>, <<"lost_on_points", "bool">>,
       <<"won_on_spread", "bool">>, <<"lost_on_spread", "bool">>,
       <<"point_win_streak", "int">>, <<"point_loss_streak", "int">>,
       <<"point_margin_game", "int">>, <<"point_margin_season", "int">>,
       <<"point_margin_season_avg", "float">>,
       <<"point_margin_streak", "int">>,
       <<"point_margin_streak_avg", "float">>,
       <<"point_margin_ngames", "int">>,
       <<"point_margin_ngames_avg", "float">>,
       <<"cover_win_streak", "int">>, <<"cover_loss_streak", "int">>,
       <<"cover_margin_game", "float">>, <<"cover_margin_season", "float">>,
       <<"cover_margin_season_avg", "float">>,
       <<"cover_margin_streak", "float">>,
       <<"cover_margin_streak_avg", "float">>,
       <<"cover_margin_ngames", "float">>,
       <<"cover_margin_ngames_avg", "float">>,
       <<"total_points", "int">>, <<"overunder_margin", "float">>,
       <<"over", "bool">>, <<"under", "bool">>,
       <<"over_streak", "int">>, <<"under_streak", "int">>,
       <<"overunder_season", "float">>, <<"overunder_season_avg", "float">>,
       <<"overunder_streak", "float">>, <<"overunder_streak_avg", "float">>,
       <<"overunder_ngames", "float">>, <<"overunder_ngames_avg", "float">> >>

game_dict ==
    << <<"point_margin_game", "int">>, <<"won_on_points", "bool">>,
       <<"lost_on_points", "bool">>, <<"cover_margin_game", "float">>,
       <<"won_on_spread", "bool">>, <<"lost_on_spread", "bool">>,
       <<"overunder_margin", "float">>, <<"over", "bool">>,
       <<"under", "bool">> >>

Keys(fdict) == {fdict[i][1] : i \in DOMAIN fdict}

(***************************************************************************)
(* The row functions                                                       *)
(***************************************************************************)
\* row: a function from column names to the values of one row
get_point_margin(row, score, opponent_score) ==
    LET nans == isnan(row[score]) \/ isnan(row[opponent_score])
    IN  IF ~nans THEN row[score] - row[opponent_score] ELSE 0

get_wins(point_margin) == IF point_margin > 0 THEN 1 ELSE 0

\* get_losses with <= for <: a tie would also count as a loss
get_losses_or_ties(point_margin) == IF point_margin <= 0 THEN 1 ELSE 0

get_losses(point_margin) == IF point_margin < 0 THEN 1 ELSE 0

\* get_ties that counts no game as a tie
get_ties_never(point_margin) == 0

get_ties(point_margin) == IF point_margin = 0 THEN 1 ELSE 0

\* offsets in days from the first date of the vector, rows 0..n-1
RECURSIVE DayOffsetTo(_, _)
DayOffsetTo(dv, n) ==
    IF n = 0 THEN <<>>
    ELSE Append(DayOffsetTo(dv, n - 1), dv[n] - dv[1])

get_day_offset(date_vector) == DayOffsetTo(date_vector, Len(date_vector))

\* Series.diff(), rows 0..n-1, the first difference being missing
RECURSIVE DiffTo(_, _)
DiffTo(series, n) ==
    IF n = 0 THEN <<>>
    ELSE Append(DiffTo(series, n - 1),
                IF n = 1 THEN NaN ELSE series[n] - series[n - 1])

\* first differences, the first one left missing
get_series_diff_unset(series) == DiffTo(series, Len(series))

\* first differences, the first one set to 0
get_series_diff(series) ==
    IF series = <<>> THEN <<>>
    ELSE [DiffTo(series, Len(series)) EXCEPT ![1] = 0]

\* the while loop of get_streak: i runs backward from start_index
RECURSIVE StreakScan(_, _, _, _, _)
StreakScan(series, start_index, window, i, streak) ==
    IF i >= 0 /\ (start_index - i + 1) < window /\ series[i + 1]
    THEN StreakScan(series, start_index, window, i - 1, streak + 1)
    ELSE streak

\* get_streak that counts the value at start_index without looking at it
get_streak_unconditional(series, start_index, window) ==
    LET w == IF window <= 0 THEN Len(series) ELSE window
    IN  IF 1 < w
        THEN StreakScan(series, start_index, w, start_index - 1, 1)
        ELSE 0

get_streak(series, start_index, window) ==
    LET w == IF window <= 0 THEN Len(series) ELSE window
    IN  StreakScan(series, start_index, w, start_index, 0)

Row(frame, index) == [c \in Columns(frame) |-> At(frame, c, index)]

(***************************************************************************)
(* add_features: one new column of flen default values per schema item,    *)
(* in schema order; an item of a kind other than int, float, bool raises   *)
(* ValueError, the columns of the items before it being already added.     *)
(***************************************************************************)
PrefixKey(prefix, key) == IF prefix # "" THEN prefix \o PSEP \o key ELSE key

\* the pass of add_features with the prefix left out of the column name
AddFeatureUnprefixed(frame, fdict, flen, prefix, k) ==
    LET newkey == fdict[k][1]
        value == fdict[k][2]
    IN  IF value = "int" \/ value = "float"
        THEN [err |-> "none", frame |-> SetCol(frame, newkey, Repeat(0, flen))]
        ELSE IF value = "bool"
        THEN [err |-> "none",
              frame |-> SetCol(frame, newkey, Repeat(FALSE, flen))]
        ELSE [err |-> "ValueError", frame |-> frame]

\* one pass of the loop of add_features, for schema item k
AddFeature(frame, fdict, flen, prefix, k) ==
    LET newkey == PrefixKey(prefix, fdict[k][1])
        value == fdict[k][2]
    IN  IF value = "int"
        THEN [err |-> "none", frame |-> SetCol(frame, newkey, Repeat(0, flen))]
        ELSE IF value = "float"
        THEN [err |-> "none", frame |-> SetCol(frame, newkey, Repeat(0, flen))]
        ELSE IF value = "bool"
        THEN [err |-> "none",
              frame |-> SetCol(frame, newkey, Repeat(FALSE, flen))]
        ELSE [err |-> "ValueError", frame |-> frame]

\* the passes for the schema items lo..hi, in schema order: those of the
\* first half of the range, then those of the second half
RECURSIVE AddFeaturesFrom(_, _, _, _, _, _)
AddFeaturesFrom(frame, fdict, flen, prefix, lo, hi) ==
    IF lo > hi THEN [err |-> "none", frame |-> frame]
    ELSE IF lo = hi THEN AddFeature(frame, fdict, flen, prefix, lo)
    ELSE With(AddFeaturesFrom(frame, fdict, flen, prefix,
                              lo, (lo + hi) \div 2),
              LAMBDA l : IF l.err # "none" THEN l
                         ELSE AddFeaturesFrom(l.frame, fdict, flen, prefix,
                                              (lo + hi) \div 2 + 1, hi))

add_features(frame, fdict, flen, prefix) ==
    AddFeaturesFrom(frame, fdict, flen, prefix, 1, Len(fdict))

(***************************************************************************)
(* generate_team_frame                                                     *)
(***************************************************************************)
\* the streak whose slice feeds a *_streak and *_streak_avg column
ActiveStreak(win_streak, loss_streak) ==
    IF win_streak > 0 THEN win_streak
    ELSE IF loss_streak > 0 THEN loss_streak
    ELSE 1

\* the line taken as stored, whichever side the team plays
UnsignedLine(at_home, line) == line

\* the line of a row from the side of the team: negated when it is away
SignedLine(at_home, line) == IF at_home THEN line ELSE Neg(line)

\* lost_on_spread with < for <=: a push would be no loss
LostOnSpreadStrict(cover) == Lt(cover, 0)

\* the spread is lost on a cover margin of zero or less
LostOnSpread(cover) == Le(cover, 0)

\* one pass of the team loop, for a row in which the team is found
TeamLoopBody(team, tf, home_team, away_team, index) ==
    LET p == index + 1
        at_home == team = tf[home_team][p]
        hs == tf["home.score"][p]
        as == tf["away.score"][p]
        ou == tf["over_under"][p]
        row == [c \in {"home.score", "away.score"} |-> tf[c][p]]
        pm == IF at_home
              THEN get_point_margin(row, "home.score", "away.score")
              ELSE get_point_margin(row, "away.score", "home.score")
        line == SignedLine(at_home, tf["line"][p])
        wins == IF index = 0 THEN get_wins(pm)
                ELSE tf["wins"][p - 1] + get_wins(pm)
        losses == IF index = 0 THEN get_losses(pm)
                  ELSE tf["losses"][p - 1] + get_losses(pm)
        ties == IF index = 0 THEN get_ties(pm)
                ELSE tf["ties"][p - 1] + get_ties(pm)
        cover == Add(pm, line)
        nans == isnan(hs) \/ isnan(as)
        total == IF ~nans THEN hs + as ELSE tf["total_points"][p]
        oum == IF ~isnan(ou) THEN total - ou ELSE tf["overunder_margin"][p]
        won_on_points == [tf["won_on_points"] EXCEPT ![p] = pm > 0]
        lost_on_points == [tf["lost_on_points"] EXCEPT ![p] = pm < 0]
        won_on_spread == [tf["won_on_spread"] EXCEPT ![p] = Gt(cover, 0)]
        lost_on_spread == [tf["lost_on_spread"] EXCEPT ![p] = LostOnSpread(cover)]
        over == [tf["over"] EXCEPT ![p] = Gt(oum, 0)]
        under == [tf["under"] EXCEPT ![p] = Lt(oum, 0)]
        pws == get_streak(won_on_points, index, 0)
        pls == get_streak(lost_on_points, index, 0)
        cws == get_streak(won_on_spread, index, 0)
        cls == get_streak(lost_on_spread, index, 0)
        os == get_streak(over, index, 0)
        us == get_streak(under, index, 0)
        ps == ActiveStreak(pws, pls)
        cs == ActiveStreak(cws, cls)
        ous == ActiveStreak(os, us)
        pslice == Slice([tf["point_margin_game"] EXCEPT ![p] = pm],
                        index - ps + 1, index + 1)
        cslice == Slice([tf["cover_margin_game"] EXCEPT ![p] = cover],
                        index - cs + 1, index + 1)
        oslice == Slice([tf["overunder_margin"] EXCEPT ![p] = oum],
                        index - ous + 1, index + 1)
    IN  [tf EXCEPT
            !["point_margin_game"][p] = pm,
            !["wins"][p] = wins,
            !["losses"][p] = losses,
            !["ties"][p] = ties,
            !["won_on_points"] = won_on_points,
            !["lost_on_points"] = lost_on_points,
            !["cover_margin_game"][p] = cover,
            !["won_on_spread"] = won_on_spread,
            !["lost_on_spread"] = lost_on_spread,
            !["total_points"][p] = total,
            !["overunder_margin"][p] = oum,
            !["over"] = over,
            !["under"] = under,
            !["point_win_streak"][p] = pws,
            !["point_loss_streak"][p] = pls,
            !["cover_win_streak"][p] = cws,
            !["cover_loss_streak"][p] = cls,
            !["over_streak"][p] = os,
            !["under_streak"][p] = us,
            !["point_margin_streak"][p] = SeriesSum(pslice),
            !["point_margin_streak_avg"][p] = SeriesMean(pslice),
            !["cover_margin_streak"][p] = SeriesSum(cslice),
            !["cover_margin_streak_avg"][p] = SeriesMean(cslice),
            !["overunder_streak"][p] = SeriesSum(oslice),
            !["overunder_streak_avg"][p] = SeriesMean(oslice)]

\* the team loop passing over a row without the team instead of raising
RECURSIVE TeamLoopLenient(_, _, _, _, _)
TeamLoopLenient(team, tf, home_team, away_team, index) ==
    IF index >= NRows(tf) THEN [err |-> "none", frame |-> tf]
    ELSE IF team = At(tf, home_team, index) \/ team = At(tf, away_team, index)
    THEN With(TeamLoopBody(team, tf, home_team, away_team, index),
              LAMBDA f : TeamLoopLenient(team, f, home_team, away_team,
                                         index + 1))
    ELSE TeamLoopLenient(team, tf, home_team, away_team, index + 1)

\* the team loop from row index on; KeyError at the first row without the team
RECURSIVE TeamLoop(_, _, _, _, _)
TeamLoop(team, tf, home_team, away_team, index) ==
    IF index >= NRows(tf) THEN [err |-> "none", frame |-> tf]
    ELSE IF team = At(tf, home_team, index) \/ team = At(tf, away_team, index)
    THEN With(TeamLoopBody(team, tf, home_team, away_team, index),
              LAMBDA f : TeamLoop(team, f, home_team, away_team, index + 1))
    ELSE [err |-> "KeyError", frame |-> tf]

\* the rolling and expanding columns of one margin
Aggregates(tf, game, season, season_avg, ngames, ngames_avg, window) ==
    SetCol(SetCol(SetCol(SetCol(tf,
        season, CumSum(tf[game])),
        season_avg, ExpandingMean(tf[game])),
        ngames, RollingSum(tf[game], window)),
        ngames_avg, RollingMean(tf[game], window))

generate_team_frame(team, tf, home_team, away_team, window) ==
    LET offsets(t0) ==
            SetCol(t0, "days_since_first_game", get_day_offset(t0["date"]))
        diffs(t1) ==
            SetCol(t1, "days_since_previous_game",
                   get_series_diff(t1["days_since_first_game"]))
        loop(t2) == TeamLoop(team, t2, home_team, away_team, 0)
        points(f) == Aggregates(f, "point_margin_game",
                  "point_margin_season", "point_margin_season_avg",
                  "point_margin_ngames", "point_margin_ngames_avg", window)
        cover(f) == Aggregates(f, "cover_margin_game",
                  "cover_margin_season", "cover_margin_season_avg",
                  "cover_margin_ngames", "cover_margin_ngames_avg", window)
        overunder(f) == Aggregates(f, "overunder_margin",
                  "overunder_season", "overunder_season_avg",
                  "overunder_ngames", "overunder_ngames_avg", window)
        rolling(l) ==
            IF l.err # "none" THEN l
            ELSE [err |-> "none",
                  frame |-> With(With(With(l.frame, points), cover), overunder)]
    IN  With(With(With(With(add_features(tf, sports_dict, NRows(tf), "").frame,
                            offsets), diffs), loop), rolling)

\* the distinct values of a series in order of first appearance
RECURSIVE Unique(_)
Unique(series) ==
    IF series = <<>> THEN <<>>
    ELSE LET front == Unique(SubSeq(series, 1, Len(series) - 1))
             last == series[Len(series)]
         IN  IF \E i \in 1..Len(front) : front[i] = last THEN front
             ELSE Append(front, last)

(***************************************************************************)
(* get_text_features (features.py): a text column is turned into numbers   *)
(* by factorization, by vectorization or by one-hot encoding.  The value    *)
(* modelled is the one returned together with the last message logged,     *)
(* which names the branch taken.  Vectorization is carried as far as the   *)
(* matrix of term counts of CountVectorizer; the TF-IDF weights that       *)
(* TfidfTransformer derives from the counts are not computed.              *)
(***************************************************************************)
NULLTEXT == "NULLTEXT"
\* a missing value of a text column
NoText == "<NA>"

\* feature.fillna(value=NULLTEXT)
FillText(feature) ==
    [i \in DOMAIN feature |->
        IF feature[i] = NoText THEN NULLTEXT ELSE feature[i]]

\* the words CountVectorizer finds in a text of the model: the runs of two
\* or more word characters, in lower case
Tokens(text) ==
    CASE text = "x" -> <<>>
      [] text = "ab" -> <<"ab">>
      [] text = "cd ef" -> <<"cd", "ef">>
      [] text = NULLTEXT -> <<"nulltext">>

\* the n-grams of a list of words, n = 1..ngrams_max
NGrams(tokens, ngrams_max) ==
    UNION {{SubSeq(tokens, a, a + n - 1) : a \in 1..(Len(tokens) - n + 1)} :
               n \in 1..ngrams_max}

\* the vocabulary CountVectorizer learns from a column
Vocabulary(feature, ngrams_max) ==
    UNION {NGrams(Tokens(feature[i]), ngrams_max) : i \in DOMAIN feature}

\* how often an n-gram occurs in a list of words
TermCount(tokens, gram) ==
    Cardinality({a \in 1..(Len(tokens) - Len(gram) + 1) :
                    SubSeq(tokens, a, a + Len(gram) - 1) = gram})

\* CountVectorizer.fit_transform: a column of counts per n-gram
CountMatrix(feature, ngrams_max) ==
    [gram \in Vocabulary(feature, ngrams_max) |->
        [i \in DOMAIN feature |-> TermCount(Tokens(feature[i]), gram)]]

\* pd.factorize: each value is numbered, from 0, in order of first appearance
Factorize(feature) ==
    [i \in DOMAIN feature |->
        (CHOOSE k \in 1..Len(Unique(feature)) :
            Unique(feature)[k] = feature[i]) - 1]

\* pd.get_dummies: one indicator column per value
Dummies(feature) ==
    [v \in {feature[i] : i \in DOMAIN feature} |->
        [i \in DOMAIN feature |-> IF feature[i] = v THEN 1 ELSE 0]]

get_text_features(feature, nvalues, dummy_limit, vectorize, ngrams_max) ==
    LET filled == FillText(feature)
    IN  IF nvalues >= dummy_limit
        THEN [log |-> "Factorization", new_features |-> Factorize(filled)]
        ELSE IF vectorize
        THEN IF Vocabulary(filled, ngrams_max) # {}
             THEN [log |-> "Vectorization Succeeded",
                   new_features |-> CountMatrix(filled, ngrams_max)]
             ELSE [log |-> "Factorization Instead",
                   new_features |-> Factorize(filled)]
        ELSE [log |-> "One-Hot Encoding", new_features |-> Dummies(filled)]

(***************************************************************************)
(* drop_features (features.py).  The table is the sequence of its columns  *)
(* in column order; a column is its name, its dtype and its values.  The   *)
(* function only tells values apart, so a value is written as the text that *)
(* reads it: "1" and "2" are numbers, "a" and "b" texts.                    *)
(***************************************************************************)
\* a missing value of a column of numbers
NoNumber == "nan"

\* X[col].std() == 0 for a column of numbers: the standard deviation of the
\* values that are not missing is missing itself with fewer than two of
\* them, and 0 when they are all the same
StdIsZero(values) ==
    LET known == {i \in 1..Len(values) : values[i] # NoNumber}
    IN  /\ Cardinality(known) >= 2
        /\ \A i, j \in known : values[i] = values[j]

\* np.array_equal of the values of two columns: a missing value equals
\* nothing, itself included
ArrayEqual(a, b) ==
    \A i \in 1..Len(a.values) :
        a.values[i] # NoNumber /\ a.values[i] = b.values[i]

drop_features(X, drop) ==
    LET dropped == SelectSeq(X, LAMBDA col : col.name \notin drop)
        constant == {dropped[k].name : k \in
                        {k \in 1..Len(dropped) :
                            /\ dropped[k].dtype \in {"float64", "int64"}
                            /\ StdIsZero(dropped[k].values)}}
        c == SelectSeq(dropped, LAMBDA col : col.name \notin constant)
        duplicated == {c[j].name : j \in
                          {j \in 1..Len(c) :
                              \E i \in 1..(j - 1) : ArrayEqual(c[i], c[j])}}
    IN  SelectSeq(c, LAMBDA col : col.name \notin duplicated)

(***************************************************************************)
(* Inputs of the function-level calls                                      *)
(***************************************************************************)
home_team == "home.team"
away_team == "away.team"

\* a game record as one row of the game table
GameRow(season, date, home, away, hs, as, line, ou) ==
    [c \in {"season", "date", home_team, away_team, "home.score",
            "away.score", "line", "over_under"} |->
        CASE c = "season" -> season
          [] c = "date" -> date
          [] c = home_team -> home
          [] c = away_team -> away
          [] c = "home.score" -> hs
          [] c = "away.score" -> as
          [] c = "line" -> line
          [] c = "over_under" -> ou]

\* column c of a sequence of rows, rows 0..n-1
RECURSIVE ColumnTo(_, _, _)
ColumnTo(rows, c, n) ==
    IF n = 0 THEN <<>> ELSE Append(ColumnTo(rows, c, n - 1), rows[n][c])

\* the frame whose rows are the given sequence of rows (read_frame)
FrameOf(rows) ==
    LET col(c) == c :> ColumnTo(rows, c, Len(rows))
    IN  col("season") @@ col("date") @@ col(home_team) @@ col(away_team)
        @@ col("home.score") @@ col("away.score") @@ col("line")
        @@ col("over_under")

BoolSeries == UNION {[1..n -> BOOLEAN] : n \in 1..MaxLen}

StreakCalls ==
    {[fn |-> "get_streak", series |-> s, start_index |-> p, window |-> w] :
        s \in BoolSeries, p \in 0..(MaxLen - 1), w \in (0 - 1)..(MaxLen + 1)}

\* what one row of a partition of team "A" can hold, the date apart: A at
\* home or away against B with every result, the home side favoured by one
\* point and an over/under total of 1; rows with one input missing; and a
\* row of two other teams
UnitRows ==
    {<<pair[1], pair[2], hs, as, 0 - 1, 1>> :
        pair \in {<<"A", "B">>, <<"B", "A">>}, hs \in 0..1, as \in 0..1}
    \cup {<<"A", "B", NaN, 0, 0 - 1, 1>>, <<"B", "A", 1, 0, NaN, 1>>,
          <<"A", "B", 1, 0, 0 - 1, NaN>>, <<"B", "C", 1, 0, 0 - 1, 1>>}

\* a partition: one game a day from day 1 on
PartitionOf(kinds) ==
    FrameOf([i \in 1..Len(kinds) |->
        GameRow(1, i, kinds[i][1], kinds[i][2], kinds[i][3], kinds[i][4],
                kinds[i][5], kinds[i][6])])

\* team T of the scenario is "A": home 7-0 with line -3, away 0-3 at a home
\* line of -3, home 10-0 with line +4
ScenarioKinds ==
    << <<"A", "B", 7, 0, 0 - 3, 1>>, <<"B", "A", 3, 0, 0 - 3, 1>>,
       <<"A", "B", 10, 0, 4, 1>> >>

TeamFrameCalls ==
    {[fn |-> "generate_team_frame", team |-> "A", tf |-> PartitionOf(ks),
      window |-> w] :
        ks \in UNION {[1..n -> UnitRows] : n \in 1..MaxRows} \cup {ScenarioKinds},
        w \in 1..MaxWindow}

\* a partition of games of A at home against B, won 1-0, on the given days
DatedPartition(dates) ==
    FrameOf([i \in 1..Len(dates) |->
        GameRow(1, dates[i], "A", "B", 1, 0, 0 - 1, 1)])

\* calls on partitions with any days between the games, in any order
DatedTeamFrameCalls ==
    {[fn |-> "generate_team_frame", team |-> "A",
      tf |-> DatedPartition(dates), window |-> w] :
        dates \in UNION {[1..n -> 1..MaxDay] : n \in 1..MaxRows},
        w \in 1..MaxWindow}

\* schema items of each kind add_features knows, and one of another kind
SchemaItems ==
    {<<"wins", "int">>, <<"avg", "float">>, <<"over", "bool">>,
     <<"name", "str">>}

\* schemas: a dict has each name once
Schemas ==
    {fd \in UNION {[1..n -> SchemaItems] : n \in 1..MaxSchema} :
        \A i, j \in 1..Len(fd) : fd[i][1] = fd[j][1] => i = j}

\* add_features is called on an empty table with any number of rows asked
\* for, or on a table for the number of rows it has (as at every call of
\* it in sportstream.py); the table may hold a column of the schema already
AddFeaturesCalls ==
    {[fn |-> "add_features", frame |-> EmptyFrame, fdict |-> fd,
      flen |-> n, prefix |-> pre] :
        fd \in Schemas, n \in 0..(MaxLen + 1), pre \in {"", "home"}}
    \cup
    {[fn |-> "add_features", frame |-> f, fdict |-> fd,
      flen |-> NRows(f), prefix |-> pre] :
        f \in UNION {{"date" :> Repeat(1, n),
                       ("date" :> Repeat(1, n)) @@ ("wins" :> Repeat(7, n))} :
                         n \in 1..MaxRows},
        fd \in Schemas, pre \in {"", "home"}}

\* the texts of a text column: one of a single letter, one of one word, one
\* of two words
Texts == {"x", "ab", "cd ef"}

\* text columns: texts and missing values, one text at least
TextColumns ==
    {f \in UNION {[1..n -> Texts \cup {NoText}] : n \in 1..MaxText} :
        \E i \in 1..Len(f) : f[i] # NoText}

\* the calls create_features makes: nvalues is the number of distinct
\* values of the column, a missing value being one of them
TextCalls ==
    {[fn |-> "get_text_features", feature |-> f,
      nvalues |-> Cardinality({f[i] : i \in 1..Len(f)}),
      dummy_limit |-> l, vectorize |-> v, ngrams_max |-> g] :
        f \in TextColumns, l \in 1..MaxLimit, v \in BOOLEAN, g \in 1..MaxNgrams}

\* the value sequences of a column of n rows, a first value and the value
\* of the other rows: a constant number, two columns of numbers that vary,
\* numbers with the first missing, a constant text and texts that vary; the
\* dtype of a column follows from its values
ColumnValues(n) ==
    {[i \in 1..n |-> IF i = 1 THEN p[1] ELSE p[2]] :
        p \in {<<"1", "1">>, <<"1", "2">>, <<"2", "1">>, <<NoNumber, "1">>,
               <<"a", "a">>, <<"a", "b">>}}

DtypeOf(values) ==
    IF values[1] \in {"a", "b"} THEN "object"
    ELSE IF \E i \in 1..Len(values) : values[i] = NoNumber THEN "float64"
    ELSE "int64"

ColumnNames == <<"c1", "c2", "c3", "c4">>

\* the tables of n rows made of the given value sequences, named in order
TableOf(columns) ==
    [k \in 1..Len(columns) |->
        [name |-> ColumnNames[k], dtype |-> DtypeOf(columns[k]),
         values |-> columns[k]]]

\* drop names the first column, a column the table has not, or none
DropCalls ==
    {[fn |-> "drop_features", X |-> TableOf(columns), drop |-> d] :
        columns \in UNION {UNION {[1..m -> ColumnValues(n)] :
                                     m \in 1..MaxCols} : n \in 1..MaxDropRows},
        d \in {{}, {"c1"}, {"zz"}}}

(***************************************************************************)
(* The function-level specification                                        *)
(***************************************************************************)
InitUnit ==
    /\ upc = "call"
    /\ \/ ucall \in StreakCalls
       \/ ucall \in TeamFrameCalls
       \/ ucall \in DatedTeamFrameCalls
       \/ ucall \in AddFeaturesCalls
       \/ ucall \in TextCalls
       \/ ucall \in DropCalls
    /\ (ucall.fn = "get_streak" => ucall.start_index < Len(ucall.series))
    /\ uret = <<>>
    /\ uarg = IF ucall.fn = "generate_team_frame" THEN ucall.tf
              ELSE IF ucall.fn = "add_features" THEN ucall.frame
              ELSE IF ucall.fn = "get_text_features" THEN ucall.feature
              ELSE IF ucall.fn = "drop_features" THEN ucall.X
              ELSE <<>>
    /\ uerr = "none"
    /\ pc = "idle"
    /\ df = <<>> /\ rolling_window = 0 /\ seasons = <<>> /\ si = 0 /\ gf = <<>>
    /\ teams = <<>> /\ team_frames = <<>> /\ mf = <<>> /\ cur = <<>>
    /\ ff = <<>>
    /\ train_date = 0 /\ predict_date = 0
    /\ new_train_frame = <<>> /\ new_test_frame = <<>>
    /\ written = <<>> /\ error = ""

CallGetStreak ==
    /\ upc = "call"
    /\ ucall.fn = "get_streak"
    /\ uret' = get_streak(ucall.series, ucall.start_index, ucall.window)
    /\ upc' = "returned"
    /\ UNCHANGED <<ucall, uarg, uerr, mvars>>

TeamFrameResult ==
    generate_team_frame(ucall.team, ucall.tf, home_team, away_team, ucall.window)

CallGenerateTeamFrame ==
    /\ upc = "call"
    /\ ucall.fn = "generate_team_frame"
    /\ \E r \in {TeamFrameResult} :
           /\ uret' = IF r.err = "none" THEN r.frame ELSE <<>>
           /\ upc' = IF r.err = "none" THEN "returned" ELSE "raised"
           /\ uarg' = r.frame
           /\ uerr' = r.err
    /\ UNCHANGED <<ucall, mvars>>

\* add_features works on the table it is passed and returns that table
CallAddFeatures ==
    /\ upc = "call"
    /\ ucall.fn = "add_features"
    /\ \E r \in {add_features(ucall.frame, ucall.fdict, ucall.flen,
                               ucall.prefix)} :
           /\ uret' = IF r.err = "none" THEN r.frame ELSE <<>>
           /\ upc' = IF r.err = "none" THEN "returned" ELSE "raised"
           /\ uarg' = r.frame
           /\ uerr' = r.err
    /\ UNCHANGED <<ucall, mvars>>

\* get_text_features fills the missing values of the column it is passed
CallGetTextFeatures ==
    /\ upc = "call"
    /\ ucall.fn = "get_text_features"
    /\ uret' = get_text_features(ucall.feature, ucall.nvalues,
                                 ucall.dummy_limit, ucall.vectorize,
                                 ucall.ngrams_max)
    /\ uarg' = FillText(ucall.feature)
    /\ upc' = "returned"
    /\ UNCHANGED <<ucall, uerr, mvars>>

\* drop_features drops the columns of the table it is passed and returns it
CallDropFeatures ==
    /\ upc = "call"
    /\ ucall.fn = "drop_features"
    /\ \E r \in {drop_features(ucall.X, ucall.drop)} :
           /\ uret' = r
           /\ uarg' = r
    /\ upc' = "returned"
    /\ UNCHANGED <<ucall, uerr, mvars>>

NextUnit ==
    \/ CallGetStreak
    \/ CallGenerateTeamFrame
    \/ CallAddFeatures
    \/ CallGetTextFeatures
    \/ CallDropFeatures

SpecUnit == InitUnit /\ [][NextUnit]_vars

(***************************************************************************)
(* Frames: selection of rows and concatenation                             *)
(***************************************************************************)
\* the positions 1..n in order
RECURSIVE Iota(_)
Iota(n) == IF n = 0 THEN <<>> ELSE Append(Iota(n - 1), n)

\* the values of a series at the given positions, in that order
RECURSIVE Gather(_, _)
Gather(series, idx) ==
    IF idx = <<>> THEN <<>>
    ELSE <<series[Head(idx)]>> \o Gather(series, Tail(idx))

RECURSIVE TakeColumns(_, _, _)
TakeColumns(frame, cols, idx) ==
    IF cols = {} THEN <<>>
    ELSE LET c == CHOOSE x \in cols : TRUE
         IN  (c :> Gather(frame[c], idx))
                 @@ TakeColumns(frame, cols \ {c}, idx)

\* the rows of a frame at the given positions, renumbered from 0
\* (boolean indexing followed by reset_index)
TakeRows(frame, idx) == TakeColumns(frame, Columns(frame), idx)

RECURSIVE ConcatColumns(_, _, _)
ConcatColumns(f, g, cols) ==
    IF cols = {} THEN <<>>
    ELSE LET c == CHOOSE x \in cols : TRUE
         IN  (c :> (f[c] \o g[c])) @@ ConcatColumns(f, g, cols \ {c})

\* pd.concat([f, g]) of frames with the same columns, f possibly empty
ConcatRows(f, g) ==
    IF Columns(f) = {} THEN g ELSE ConcatColumns(f, g, Columns(f))

\* element-wise difference of two series
RECURSIVE SeriesSub(_, _)
SeriesSub(a, b) ==
    IF a = <<>> THEN <<>>
    ELSE <<Sub(Head(a), Head(b))>> \o SeriesSub(Tail(a), Tail(b))

\* element-wise sum of two series
RECURSIVE SeriesAdd(_, _)
SeriesAdd(a, b) ==
    IF a = <<>> THEN <<>>
    ELSE <<Add(Head(a), Head(b))>> \o SeriesAdd(Tail(a), Tail(b))

(***************************************************************************)
(* The season loop of main                                                 *)
(***************************************************************************)
team1_prefix == "home"
team2_prefix == "away"

\* the team names in the sort order of the groupby keys
TeamOrder == <<"A", "B", "C">>

\* the whole table taken as the games of every season
SeasonFrameWhole(frame, season) == frame

\* the games of one season, renumbered
SeasonFrame(frame, season) ==
    TakeRows(frame, SelectSeq(Iota(NRows(frame)),
                              LAMBDA i : frame["season"][i] = season))

\* one pass of the loop that derives the variables of the game frame
GameLoopBody(frame, index) ==
    LET p == index + 1
        row == [c \in {"home.score", "away.score"} |-> frame[c][p]]
        pm == get_point_margin(row, "home.score", "away.score")
        cover == Add(pm, frame["line"][p])
        oum == Sub(frame["total_points"][p], frame["over_under"][p])
    IN  [frame EXCEPT
            !["point_margin_game"][p] = pm,
            !["won_on_points"][p] = pm > 0,
            !["lost_on_points"][p] = pm < 0,
            !["cover_margin_game"][p] = cover,
            !["won_on_spread"][p] = Gt(cover, 0),
            !["lost_on_spread"][p] = Le(cover, 0),
            !["overunder_margin"][p] = oum,
            !["over"][p] = Gt(oum, 0),
            !["under"][p] = Lt(oum, 0)]

RECURSIVE GameLoop(_, _)
GameLoop(frame, index) ==
    IF index >= NRows(frame) THEN frame
    ELSE With(GameLoopBody(frame, index), LAMBDA f : GameLoop(f, index + 1))

\* the game frame of a season with its derived variables
GameFrame(frame, season) ==
    LET g0 == SeasonFrame(frame, season)
        g1 == SetCol(g0, "total_points",
                     SeriesAdd(g0["home.score"], g0["away.score"]))
        g2 == add_features(g1, game_dict, NRows(g1), "").frame
    IN  GameLoop(g2, 0)

\* the keys of gf.groupby([home_team]): the home teams, sorted
GroupKeys(frame) ==
    SelectSeq(TeamOrder,
              LAMBDA t : \E i \in 1..NRows(frame) : frame[home_team][i] = t)

\* the rows of the game frame in which the team is the home or the away team
get_team_frame(game_frame, team, home, away) ==
    TakeRows(game_frame,
             SelectSeq(Iota(NRows(game_frame)),
                       LAMBDA i : game_frame[home][i] = team
                                  \/ game_frame[away][i] = team))

\* the schema of the model frame: the items of sports_dict that are not bool
mdict == SelectSeq(sports_dict, LAMBDA kv : kv[2] # "bool")

\* the team frame of every group key
RECURSIVE TeamFrames(_, _, _)
TeamFrames(frame, keys, w) ==
    IF keys = <<>> THEN <<>>
    ELSE LET team == Head(keys)
             tf == get_team_frame(frame, team, home_team, away_team)
         IN  (team :> generate_team_frame(team, tf, home_team, away_team,
                                          w).frame)
                 @@ TeamFrames(frame, Tail(keys), w)

\* the game frame with the zero-filled home and away columns beside it
ModelFrame(frame) ==
    LET n == NRows(frame)
        team1_frame == add_features(<<>>, mdict, n, team1_prefix).frame
        team2_frame == add_features(<<>>, mdict, n, team2_prefix).frame
    IN  frame @@ team1_frame @@ team2_frame

\* the schema items lo..hi are copied, in schema order, from row tpos of
\* the team frame into row mpos of the model frame: the first half of the
\* range, then the second half
RECURSIVE InsertFrom(_, _, _, _, _, _, _, _)
InsertFrom(frame, mpos, fdict, tf, tpos, prefix, lo, hi) ==
    IF lo > hi THEN frame
    ELSE IF lo = hi
    THEN SetAt(frame, PrefixKey(prefix, fdict[lo][1]), mpos,
               At(tf, fdict[lo][1], tpos))
    ELSE With(InsertFrom(frame, mpos, fdict, tf, tpos, prefix,
                         lo, (lo + hi) \div 2),
              LAMBDA f : InsertFrom(f, mpos, fdict, tf, tpos, prefix,
                                    (lo + hi) \div 2 + 1, hi))

insert_model_data(frame, mpos, fdict, tf, tpos, prefix) ==
    InsertFrom(frame, mpos, fdict, tf, tpos, prefix, 1, Len(fdict))

\* the delta column of schema item k: the column of prefix1 minus the
\* column of prefix2
Delta(frame, fdict, prefix1, prefix2, k) ==
    LET key == fdict[k][1]
        newkey == PrefixKey("delta", key)
        key1 == PrefixKey(prefix1, key)
        key2 == PrefixKey(prefix2, key)
    IN  SetCol(frame, newkey, SeriesSub(frame[key1], frame[key2]))

\* the delta columns of the schema items lo..hi, in schema order: the
\* first half of the range, then the second half
RECURSIVE DeltaFrom(_, _, _, _, _, _)
DeltaFrom(frame, fdict, prefix1, prefix2, lo, hi) ==
    IF lo > hi THEN frame
    ELSE IF lo = hi THEN Delta(frame, fdict, prefix1, prefix2, lo)
    ELSE With(DeltaFrom(frame, fdict, prefix1, prefix2,
                        lo, (lo + hi) \div 2),
              LAMBDA f : DeltaFrom(f, fdict, prefix1, prefix2,
                                   (lo + hi) \div 2 + 1, hi))

\* generate_delta_data with the two sides exchanged
generate_delta_data_reversed(frame, fdict, prefix1, prefix2) ==
    DeltaFrom(frame, fdict, prefix2, prefix1, 1, Len(fdict))

generate_delta_data(frame, fdict, prefix1, prefix2) ==
    DeltaFrom(frame, fdict, prefix1, prefix2, 1, Len(fdict))

\* np.where(...)[0]: the rows of the model frame with the team in the
\* column of its side and with the date
KeyMatches(frame, side_column, key_team, key_date) ==
    SelectSeq(Iota(NRows(frame)),
              LAMBDA i : frame[side_column][i] = key_team
                         /\ frame["date"][i] = key_date)

\* the merge loop from (team t of the keys, row index) on: the next
\* position at which the inner loop has a row to merge, or the end
RECURSIVE NextMerge(_, _, _, _)
NextMerge(keys, frames, t, index) ==
    IF t > Len(keys) THEN [t |-> t, index |-> 0]
    ELSE IF index < NRows(frames[keys[t]]) - 1 THEN [t |-> t, index |-> index]
    ELSE NextMerge(keys, frames, t + 1, 0)

(***************************************************************************)
(* The inputs of main                                                      *)
(***************************************************************************)
Teams == {"A", "B", "C"}

\* a game record of season 1: a date, two teams, the home team winning 1-0
\* as the favourite by one point, an over/under total of 1
MainRows ==
    {GameRow(1, d, h, a, 1, 0, 0 - 1, 1) :
        d \in 1..MaxDate, h \in Teams, a \in Teams}

GameTables ==
    UNION {[1..n -> {r \in MainRows : r[home_team] # r[away_team]}] :
               n \in 1..MaxGames}

(***************************************************************************)
(* The specification of main                                               *)
(***************************************************************************)
Init ==
    /\ upc = "idle" /\ ucall = <<>> /\ uret = <<>>
    /\ uarg = <<>> /\ uerr = "none"
    /\ train_date = 1 /\ predict_date = MaxDate
    /\ new_train_frame = <<>> /\ new_test_frame = <<>>
    /\ written = <<>> /\ error = ""
    /\ pc = "season"
    /\ \E rows \in GameTables : df = FrameOf(rows)
    /\ rolling_window = MaxWindow
    /\ seasons = Unique(df["season"])
    /\ si = 0
    /\ gf = <<>> /\ teams = <<>> /\ team_frames = <<>> /\ mf = <<>>
    /\ cur = <<>>
    /\ ff = <<>>

\* the game frame of the next season and its derived variables
BuildGameFrame ==
    /\ pc = "season"
    /\ si < Len(seasons)
    /\ gf' = GameFrame(df, seasons[si + 1])
    /\ pc' = "teams"
    /\ UNCHANGED <<df, rolling_window, seasons, si, teams, team_frames, mf, cur, ff>>
    /\ UNCHANGED <<uvars, svars>>

\* the team frames of the season and the model frame before the merge
BuildTeamFrames ==
    /\ pc = "teams"
    /\ \E keys \in {GroupKeys(gf)} : \E frames \in {TeamFrames(gf, keys, rolling_window)} :
           /\ teams' = keys
           /\ team_frames' = frames
           /\ cur' = NextMerge(keys, frames, 1, 0)
    /\ mf' = ModelFrame(gf)
    /\ pc' = "merge"
    /\ UNCHANGED <<df, rolling_window, seasons, si, gf, ff>>
    /\ UNCHANGED <<uvars, svars>>

\* one pass of the inner merge loop: row index of the team frame goes into
\* the model-frame row of the game at row index + 1
MergeRow ==
    /\ pc = "merge"
    /\ cur.t <= Len(teams)
    /\ LET team == teams[cur.t]
           tf == team_frames[team]
           index == cur.index
           gindex == index + 1
           key_date == At(tf, "date", gindex)
           at_home == team = At(tf, home_team, gindex)
           found == at_home \/ team = At(tf, away_team, gindex)
           matches == KeyMatches(mf, IF at_home THEN home_team ELSE away_team,
                                 team, key_date)
       IN  IF ~found \/ matches = <<>>
           THEN /\ pc' = IF ~found THEN "KeyError" ELSE "IndexError"
                /\ UNCHANGED <<mf, cur>>
           ELSE /\ mf' = insert_model_data(mf, matches[1] - 1, mdict, tf, index,
                             IF at_home THEN team1_prefix ELSE team2_prefix)
                /\ cur' = NextMerge(teams, team_frames, cur.t, index + 1)
                /\ pc' = "merge"
    /\ UNCHANGED <<df, rolling_window, seasons, si, gf, teams, team_frames, ff>>
    /\ UNCHANGED <<uvars, svars>>

\* the delta columns of the season, and the season appended to the final frame
DeltaAndAppend ==
    /\ pc = "merge"
    /\ cur.t > Len(teams)
    /\ \E m \in {generate_delta_data(mf, mdict, team1_prefix, team2_prefix)} :
           /\ mf' = m
           /\ ff' = ConcatRows(ff, m)
    /\ si' = si + 1
    /\ pc' = "season"
    /\ UNCHANGED <<df, rolling_window, seasons, gf, teams, team_frames, cur>>
    /\ UNCHANGED <<uvars, svars>>

\* the season loop is over
EndSeasons ==
    /\ pc = "season"
    /\ si = Len(seasons)
    /\ pc' = "split"
    /\ UNCHANGED <<df, rolling_window, seasons, si, gf, teams, team_frames, mf, cur, ff>>
    /\ UNCHANGED <<uvars, svars>>

Next ==
    \/ BuildGameFrame
    \/ BuildTeamFrames
    \/ MergeRow
    \/ DeltaAndAppend
    \/ EndSeasons

Spec == Init /\ [][Next]_vars

(***************************************************************************)
(* The split of the final frame into training and prediction data, and     *)
(* the two writes.  train_date and predict_date are dates turned into      *)
(* text as year-month-day and compared with the date column; the date      *)
(* column is taken to hold dates in the same form, so that the comparison  *)
(* of the texts is the comparison of the days, and a date is its day       *)
(* number here as everywhere in this module.                               *)
(***************************************************************************)
\* the rows with lo <= date <= hi: the day of the prediction cutoff taken in
RECURSIVE TrainRowsInclusive(_, _, _, _)
TrainRowsInclusive(frame, lo, hi, n) ==
    IF n = 0 THEN <<>>
    ELSE IF frame["date"][n] >= lo /\ frame["date"][n] <= hi
    THEN Append(TrainRowsInclusive(frame, lo, hi, n - 1), n)
    ELSE TrainRowsInclusive(frame, lo, hi, n - 1)

\* the positions among rows 0..n-1 of the rows with lo <= date < hi
RECURSIVE TrainRows(_, _, _, _)
TrainRows(frame, lo, hi, n) ==
    IF n = 0 THEN <<>>
    ELSE IF frame["date"][n] >= lo /\ frame["date"][n] < hi
    THEN Append(TrainRows(frame, lo, hi, n - 1), n)
    ELSE TrainRows(frame, lo, hi, n - 1)

\* the positions among rows 0..n-1 of the rows with date >= lo
RECURSIVE TestRows(_, _, _)
TestRows(frame, lo, n) ==
    IF n = 0 THEN <<>>
    ELSE IF frame["date"][n] >= lo
    THEN Append(TestRows(frame, lo, n - 1), n)
    ELSE TestRows(frame, lo, n - 1)

\* the length test of the training subset left out
TrainNeverTooShort(frame) == FALSE

TrainTooShort(frame) == NRows(frame) <= 1
TestTooShort(frame) == NRows(frame) <= 1

TrainMessage == "Training frame has length 1 or less"
TestMessage == "Test frame has length 1 or less"

\* the final frames handed to the split: up to MaxFinal rows of games of A
\* at home against B on any days, in any order, row i (from 1) being the
\* game A scored i points in; the columns the season loop adds, which the
\* split does not read, are left out
FinalTables ==
    {FrameOf([i \in 1..Len(dates) |->
                 GameRow(1, dates[i], "A", "B", i, 0, 0 - 1, 1)]) :
        dates \in UNION {[1..n -> 1..MaxDate] : n \in 0..MaxFinal}}

\* main when the season loop is over
InitSplit ==
    /\ upc = "idle" /\ ucall = <<>> /\ uret = <<>>
    /\ uarg = <<>> /\ uerr = "none"
    /\ pc = "split"
    /\ df = <<>> /\ rolling_window = 0 /\ seasons = <<>> /\ si = 0 /\ gf = <<>>
    /\ teams = <<>> /\ team_frames = <<>> /\ mf = <<>> /\ cur = <<>>
    /\ ff \in FinalTables
    /\ train_date \in 1..(MaxDate + 1)
    /\ predict_date \in 1..(MaxDate + 1)
    /\ new_train_frame = <<>> /\ new_test_frame = <<>>
    /\ written = <<>> /\ error = ""

\* the training subset and its length test
SplitTrain ==
    /\ pc = "split"
    /\ \E f \in {TakeRows(ff, TrainRows(ff, train_date, predict_date,
                                         NRows(ff)))} :
           /\ new_train_frame' = f
           /\ IF TrainTooShort(f)
              THEN pc' = "raised" /\ error' = TrainMessage
              ELSE pc' = "split_test" /\ error' = error
    /\ UNCHANGED <<df, rolling_window, seasons, si, gf, teams, team_frames, mf,
                   cur, ff, train_date, predict_date, new_test_frame, written>>
    /\ UNCHANGED uvars

\* the prediction subset and its length test
SplitTest ==
    /\ pc = "split_test"
    /\ \E f \in {TakeRows(ff, TestRows(ff, predict_date, NRows(ff)))} :
           /\ new_test_frame' = f
           /\ IF TestTooShort(f)
              THEN pc' = "raised" /\ error' = TestMessage
              ELSE pc' = "write_train" /\ error' = error
    /\ UNCHANGED <<df, rolling_window, seasons, si, gf, teams, team_frames, mf,
                   cur, ff, train_date, predict_date, new_train_frame, written>>
    /\ UNCHANGED uvars

\* write_frame of the training subset
WriteTrain ==
    /\ pc = "write_train"
    /\ written' = Append(written, [file |-> "train_file",
                                  frame |-> new_train_frame])
    /\ pc' = "write_test"
    /\ UNCHANGED <<df, rolling_window, seasons, si, gf, teams, team_frames, mf,
                   cur, ff, train_date, predict_date, new_train_frame,
                   new_test_frame, error>>
    /\ UNCHANGED uvars

\* write_frame of the prediction subset
WriteTest ==
    /\ pc = "write_test"
    /\ written' = Append(written, [file |-> "test_file",
                                  frame |-> new_test_frame])
    /\ pc' = "model"
    /\ UNCHANGED <<df, rolling_window, seasons, si, gf, teams, team_frames, mf,
                   cur, ff, train_date, predict_date, new_train_frame,
                   new_test_frame, error>>
    /\ UNCHANGED uvars

NextSplit == SplitTrain \/ SplitTest \/ WriteTrain \/ WriteTest

SpecSplit == InitSplit /\ [][NextSplit]_vars

(***************************************************************************)
(* Properties of the function-level calls                                  *)
(***************************************************************************)
StreakReturned == upc = "returned" /\ ucall.fn = "get_streak"
TeamFrameReturned == upc = "returned" /\ ucall.fn = "generate_team_frame"
Indices(frame) == 0..(NRows(frame) - 1)
Indicator(b) == IF b THEN 1 ELSE 0
Min(a, b) == IF a <= b THEN a ELSE b

\* the column of a team frame one row before row i, 0 before the first row
Previous(frame, col, i) == IF i = 0 THEN 0 ELSE At(frame, col, i - 1)

\* the length of the maximal run of true values of series that ends at index
TrailingRun(series, index) ==
    CHOOSE k \in 0..(index + 1) :
        /\ \A j \in (index - k + 1)..index : series[j + 1]
        /\ (k = index + 1 \/ ~series[index - k + 1])

\* the outcome flags of a team frame, each with its streak column
StreakColumns ==
    {<<"won_on_points", "point_win_streak">>,
     <<"lost_on_points", "point_loss_streak">>,
     <<"won_on_spread", "cover_win_streak">>,
     <<"lost_on_spread", "cover_loss_streak">>,
     <<"over", "over_streak">>, <<"under", "under_streak">>}

\* C3: in a team frame wins, losses and ties at row 0 are the indicators of
\* point_margin_game[0] being > 0, < 0 and = 0, and at every later row each
\* is its value one row before plus the indicator for the row, so that
\* exactly one of the three counters increments per row.
C3_Counters ==
    TeamFrameReturned =>
        \A i \in Indices(uret) :
            LET pm == At(uret, "point_margin_game", i)
                dw == At(uret, "wins", i) - Previous(uret, "wins", i)
                dl == At(uret, "losses", i) - Previous(uret, "losses", i)
                dt == At(uret, "ties", i) - Previous(uret, "ties", i)
            IN  /\ dw = Indicator(pm > 0)
                /\ dl = Indicator(pm < 0)
                /\ dt = Indicator(pm = 0)
                /\ dw + dl + dt = 1

C3_Witness ==
    /\ TeamFrameReturned
    /\ NRows(uret) = 3
    /\ At(uret, "wins", 2) = 1
    /\ At(uret, "losses", 2) = 1
    /\ At(uret, "ties", 2) = 1

\* C4: with window <= 0, get_streak returns the length of the maximal run
\* of true values that ends at the position, scanning back as far as the
\* start of the sequence, the run that covers the whole sequence included.
C4_UnboundedStreak ==
    (StreakReturned /\ ucall.window <= 0) =>
        uret = TrailingRun(ucall.series, ucall.start_index)

\* C5: in a team frame, at every row whose outcome flag is true each of the
\* six streak columns is its value one row before plus 1 when the flag was
\* true one row before, and 1 otherwise, for partitions of every length.
C5_StreakIncrement ==
    TeamFrameReturned =>
        \A fs \in StreakColumns : \A i \in Indices(uret) :
            At(uret, fs[1], i) =>
                At(uret, fs[2], i) =
                    IF i > 0 /\ At(uret, fs[1], i - 1)
                    THEN At(uret, fs[2], i - 1) + 1
                    ELSE 1

\* C6: get_streak returns 0 whenever the value at the position is false,
\* for every window; and in a team frame each streak column is 0 at every
\* row where its outcome flag is false.
C6_StreakReset ==
    /\ (StreakReturned /\ ~ucall.series[ucall.start_index + 1]) => uret = 0
    /\ TeamFrameReturned =>
           \A fs \in StreakColumns : \A i \in Indices(uret) :
               ~At(uret, fs[1], i) => At(uret, fs[2], i) = 0

C6_Witness ==
    /\ StreakReturned
    /\ ucall.start_index = 2
    /\ ucall.window = 3
    /\ ucall.series[1] /\ ucall.series[2] /\ ~ucall.series[3]
    /\ uret = 0

\* C7: with window >= 1, get_streak returns the trailing run of true values
\* that ends at the position, counted over at most the window most recent
\* positions: the smaller of the run length and the window, which for a
\* window of 1 is 1 on a true value and 0 on a false one.
C7_WindowedStreak ==
    (StreakReturned /\ ucall.window >= 1) =>
        uret = Min(TrailingRun(ucall.series, ucall.start_index), ucall.window)

\* C8: in a team frame, at every row with known scores and line,
\* point_margin_game is the team's score minus the opponent's, and
\* cover_margin_game is point_margin_game plus the line when the team is
\* home and point_margin_game minus the line when it is away.
C8_Margins ==
    TeamFrameReturned =>
        \A i \in Indices(uret) :
            LET hs == At(ucall.tf, "home.score", i)
                as == At(ucall.tf, "away.score", i)
                line == At(ucall.tf, "line", i)
                pm == At(uret, "point_margin_game", i)
                cover == At(uret, "cover_margin_game", i)
            IN  (~isnan(hs) /\ ~isnan(as) /\ ~isnan(line)) =>
                    IF At(ucall.tf, home_team, i) = ucall.team
                    THEN pm = hs - as /\ cover = pm + line
                    ELSE pm = as - hs /\ cover = pm - line

C8_Witness ==
    /\ TeamFrameReturned
    /\ NRows(uret) = 2
    /\ At(ucall.tf, home_team, 0) = "A" /\ At(ucall.tf, away_team, 1) = "A"
    /\ At(uret, "point_margin_game", 0) = 1
    /\ At(uret, "cover_margin_game", 0) = 0
    /\ At(uret, "point_margin_game", 1) = 1
    /\ At(uret, "cover_margin_game", 1) = 2

\* C9: in every team-frame row with a known line, won_on_spread is true iff
\* cover_margin_game > 0 and lost_on_spread iff cover_margin_game <= 0, so
\* exactly one of them is true and a push is a loss; won_on_points and
\* lost_on_points are both false exactly when point_margin_game = 0 and are
\* never both true.
C9_SpreadPolicy ==
    TeamFrameReturned =>
        \A i \in Indices(uret) :
            LET pm == At(uret, "point_margin_game", i)
                cover == At(uret, "cover_margin_game", i)
                wp == At(uret, "won_on_points", i)
                lp == At(uret, "lost_on_points", i)
                ws == At(uret, "won_on_spread", i)
                ls == At(uret, "lost_on_spread", i)
            IN  /\ ~isnan(At(ucall.tf, "line", i)) =>
                       /\ ws = (cover > 0)
                       /\ ls = (cover <= 0)
                       /\ ws # ls
                /\ (~wp /\ ~lp) = (pm = 0)
                /\ ~(wp /\ lp)

C9_Witness ==
    /\ TeamFrameReturned
    /\ \E i \in Indices(uret) :
           /\ At(uret, "point_margin_game", i) = 1
           /\ At(uret, "cover_margin_game", i) = 0
           /\ At(uret, "won_on_points", i)
           /\ At(uret, "lost_on_spread", i)
           /\ ~At(uret, "won_on_spread", i)
    /\ \E i \in Indices(uret) :
           /\ At(uret, "point_margin_game", i) = 0
           /\ At(uret, "won_on_spread", i)

\* C10: for team T with own point margins +7, -3, +10, stored lines -3, -3,
\* +4, home in games 1 and 3 and away in game 2, the team frame has wins
\* 1, 1, 2, cover_margin_game 4 in game 1 and 14 in game 3 with the line
\* negated to +3 in game 2, cover_win_streak 1, 0, 1 and point_margin_season
\* 7, 4, 14.
C10_Scenario ==
    (TeamFrameReturned /\ ucall.tf = PartitionOf(ScenarioKinds)) =>
        /\ uret["point_margin_game"] = <<7, 0 - 3, 10>>
        /\ uret["wins"] = <<1, 1, 2>>
        /\ uret["cover_margin_game"] = <<4, (0 - 3) + 3, 14>>
        /\ uret["cover_win_streak"] = <<1, 0, 1>>
        /\ uret["point_margin_season"] = <<7, 4, 14>>

C10_Witness ==
    /\ TeamFrameReturned
    /\ ucall.tf = PartitionOf(ScenarioKinds)
    /\ uret["wins"] = <<1, 1, 2>>

(***************************************************************************)
(* Properties of main                                                      *)
(***************************************************************************)
\* the inner and outer merge loops of the season are over
MergeDone == pc = "merge" /\ cur.t > Len(teams)

\* the delta columns of the season are computed
DeltaDone == pc = "season" /\ si > 0

\* the teams that play in the season, at home or away
SeasonTeams ==
    {gf[home_team][i] : i \in 1..NRows(gf)}
        \cup {gf[away_team][i] : i \in 1..NRows(gf)}

\* the rows of the game frame in which the team plays, in order
GamesOf(team) ==
    SelectSeq(Iota(NRows(gf)),
              LAMBDA i : gf[home_team][i] = team \/ gf[away_team][i] = team)

\* the Team Statistics Rows of the team for the season
StatisticsOf(team) ==
    generate_team_frame(team, get_team_frame(gf, team, home_team, away_team),
                        home_team, away_team, rolling_window).frame

\* the prefix of the side the team plays in a row of the model frame
SideOf(team, r) ==
    IF mf[home_team][r] = team THEN team1_prefix ELSE team2_prefix

\* C1: after the merge loop, for every team and every game g of the team
\* in the season other than its first, every home.- or away.-prefixed
\* statistic on the model-frame row of game g, on the side the team plays,
\* equals the same field of the team's Team Statistics Row of the game
\* before (index g-1 of its partition), never the value of game g itself.
C1_NoLookahead ==
    MergeDone =>
        \A team \in SeasonTeams :
            \A g \in 2..Len(GamesOf(team)) :
                \A key \in Keys(mdict) :
                    mf[PrefixKey(SideOf(team, GamesOf(team)[g]), key)]
                      [GamesOf(team)[g]]
                        = StatisticsOf(team)[key][g - 1]

\* C2: after generate_delta_data on the model frame of a season, for every
\* row and every non-boolean field X of the sports schema, delta.X equals
\* home.X minus away.X.
C2_Delta ==
    DeltaDone =>
        \A key \in Keys(mdict) : \A r \in 1..NRows(mf) :
            mf[PrefixKey("delta", key)][r]
                = mf[PrefixKey(team1_prefix, key)][r]
                    - mf[PrefixKey(team2_prefix, key)][r]

C2_Witness ==
    /\ DeltaDone
    /\ \E r \in 1..NRows(mf) :
           /\ mf["home.wins"][r] = 1
           /\ mf["away.wins"][r] = 1
           /\ mf["home.losses"][r] = 0
           /\ mf["away.losses"][r] = 1
           /\ mf["delta.wins"][r] = 0
           /\ mf["delta.losses"][r] = 0 - 1

(***************************************************************************)
(* Properties of generate_team_frame: errors                               *)
(***************************************************************************)
\* the call of generate_team_frame is over, with a frame or an exception
TeamFrameCalled == ucall.fn = "generate_team_frame" /\ upc # "call"

\* the rows (1-based) of the partition passed in which the team is neither
\* the home nor the away team
Strangers ==
    {i \in 1..NRows(ucall.tf) :
        /\ ucall.tf[home_team][i] # ucall.team
        /\ ucall.tf[away_team][i] # ucall.team}

\* the number of games counted at row i of the table the call worked on
Counted(i) == uarg["wins"][i] + uarg["losses"][i] + uarg["ties"][i]

\* C12: generate_team_frame raises KeyError and returns no frame exactly
\* when the partition has a row in which the team is neither home nor away;
\* it raises on reaching the first such row: the rows before it have been
\* processed, that row and the rows after it have not.  A partition whose
\* rows all hold the team returns a frame.
C12_TeamNotFound ==
    TeamFrameCalled =>
        /\ (Strangers # {}) <=> (upc = "raised" /\ uerr = "KeyError")
        /\ (Strangers = {}) <=> (upc = "returned" /\ uerr = "none")
        /\ upc = "raised" => uret = <<>>
        /\ upc = "returned" => NRows(uret) = NRows(ucall.tf)
        /\ Strangers # {} =>
               \A i \in 1..NRows(ucall.tf) :
                   Counted(i) = IF \E k \in Strangers : k <= i THEN 0 ELSE i

C12_Witness ==
    /\ TeamFrameCalled
    /\ upc = "raised"
    /\ uerr = "KeyError"
    /\ Strangers = {2}
    /\ NRows(ucall.tf) = 3
    /\ Counted(1) = 1
    /\ Counted(3) = 0

(***************************************************************************)
(* Properties of the merge loop: the team and date key                     *)
(***************************************************************************)
\* the inner merge loop has a row of a team frame to merge
MergePending == pc = "merge" /\ cur.t <= Len(teams)

\* the rows of the model frame that hold the key of that row: the team in
\* the column of the side it plays, and the date
MergeKeyMatches ==
    LET team == teams[cur.t]
        tf == team_frames[team]
        gindex == cur.index + 1
    IN  KeyMatches(mf, IF team = At(tf, home_team, gindex)
                       THEN home_team ELSE away_team,
                   team, At(tf, "date", gindex))

\* C11: a pass of the merge loop whose key (team in its home or away
\* column, date) is held by no row or by more than one row of the model
\* frame raises IndexError and writes nothing to the model frame.
C11_UniqueKeyOrError ==
    [][(MergePending /\ Len(MergeKeyMatches) # 1)
          => (pc' = "IndexError" /\ mf' = mf)]_vars

(***************************************************************************)
(* Properties of add_features                                              *)
(***************************************************************************)
\* the call of add_features is over, with a table or an exception
AddFeaturesCalled == ucall.fn = "add_features" /\ upc # "call"

\* the kinds add_features has a default value for
Supported(kind) == kind \in {"int", "float", "bool"}

\* the name of the column of a schema item under the prefix of the call
ColumnName(name) ==
    IF ucall.prefix = "" THEN name ELSE ucall.prefix \o "." \o name

\* the names of the columns of the schema of the call
SchemaColumns == {ColumnName(ucall.fdict[k][1]) : k \in 1..Len(ucall.fdict)}

C14_NoPartialResult ==
    (AddFeaturesCalled /\ \E k \in 1..Len(ucall.fdict) :
                              ~Supported(ucall.fdict[k][2])) =>
        /\ upc = "raised"
        /\ uarg = ucall.frame

(***************************************************************************)
(* Properties of the split and the writes                                  *)
(***************************************************************************)
\* the positions of the rows of the final frame with
\* train_date <= date < predict_date, in the order of the final frame
TrainingPositions ==
    SelectSeq([i \in 1..NRows(ff) |-> i],
              LAMBDA i : train_date <= ff["date"][i]
                            /\ ff["date"][i] < predict_date)

\* the positions of the rows with date >= predict_date, in that order
PredictionPositions ==
    SelectSeq([i \in 1..NRows(ff) |-> i],
              LAMBDA i : ff["date"][i] >= predict_date)

\* the frame holds exactly the rows of the final frame at the positions
IsSubset(frame, positions) ==
    /\ Columns(frame) = Columns(ff)
    /\ \A c \in Columns(ff) :
           /\ Len(frame[c]) = Len(positions)
           /\ \A k \in 1..Len(positions) : frame[c][k] = ff[c][positions[k]]

\* C15: the training subset is exactly the rows of the final frame with
\* train_date <= date < predict_date and the prediction subset exactly the
\* rows with date >= predict_date; a subset of fewer than 2 rows ends the
\* run with the ValueError of that subset, the training subset being
\* tested first, and no write_frame call has been made when the run ends
\* so; otherwise the training subset is written, then the prediction
\* subset, and nothing else.
C15_SplitAndWrite ==
    /\ pc = "split" => written = <<>> /\ error = ""
    /\ pc # "split" =>
           /\ IsSubset(new_train_frame, TrainingPositions)
           /\ (Len(TrainingPositions) < 2)
                  <=> (pc = "raised" /\ error = TrainMessage)
    /\ (pc \in {"write_train", "write_test", "model"}
            \/ (pc = "raised" /\ error = TestMessage)) =>
           /\ IsSubset(new_test_frame, PredictionPositions)
           /\ (Len(PredictionPositions) < 2)
                  <=> (pc = "raised" /\ error = TestMessage)
    /\ pc = "raised" => written = <<>> /\ error \in {TrainMessage, TestMessage}
    /\ pc \in {"split_test", "write_train"} => written = <<>> /\ error = ""
    /\ pc = "write_test" =>
           written = << [file |-> "train_file", frame |-> new_train_frame] >>
    /\ pc = "model" =>
           written = << [file |-> "train_file", frame |-> new_train_frame],
                        [file |-> "test_file", frame |-> new_test_frame] >>

C15_Witness ==
    /\ pc = "model"
    /\ NRows(ff) = 4
    /\ Len(written) = 2
    /\ written[1].frame["home.score"] = <<1, 4>>
    /\ written[2].frame["home.score"] = <<2, 3>>

\* C16 as claimed: when train_date >= predict_date and every row of the
\* final frame has a date before predict_date, the run ends with the
\* ValueError of the prediction subset.
C16_PredictionError ==
    (/\ pc # "split"
     /\ train_date >= predict_date
     /\ \A i \in 1..NRows(ff) : ff["date"][i] < predict_date) =>
        pc = "raised" /\ error = TestMessage

\* C16, amended: in that case the run ends with the ValueError of the
\* training subset, which is empty and is tested first; the prediction
\* subset is never computed and nothing is written.
C16_TrainingError ==
    (/\ pc # "split"
     /\ train_date >= predict_date
     /\ \A i \in 1..NRows(ff) : ff["date"][i] < predict_date) =>
        /\ pc = "raised"
        /\ error = TrainMessage
        /\ NRows(new_train_frame) = 0
        /\ new_test_frame = <<>>
        /\ written = <<>>

C16_Witness ==
    /\ pc = "raised"
    /\ error = TrainMessage
    /\ train_date = MaxDate + 1
    /\ predict_date = MaxDate + 1
    /\ NRows(ff) = 3
    /\ \A i \in 1..NRows(ff) : ff["date"][i] < predict_date

(***************************************************************************)
(* Properties of generate_team_frame: missing values                       *)
(***************************************************************************)
\* C17: a missing score, line or over/under total raises nothing in
\* generate_team_frame (a partition whose rows all hold the team returns a
\* frame), and in the frame returned the margin that depends on the
\* missing input is the default 0: point_margin_game on a missing score,
\* cover_margin_game on a missing line, overunder_margin on a missing
\* over/under total.
C17_MissingValues ==
    TeamFrameCalled =>
        /\ Strangers = {} => upc = "returned"
        /\ upc = "returned" =>
               \A i \in 1..NRows(uret) :
                   /\ (isnan(ucall.tf["home.score"][i])
                         \/ isnan(ucall.tf["away.score"][i]))
                          => uret["point_margin_game"][i] = 0
                   /\ isnan(ucall.tf["line"][i])
                          => uret["cover_margin_game"][i] = 0
                   /\ isnan(ucall.tf["over_under"][i])
                          => uret["overunder_margin"][i] = 0

(***************************************************************************)
(* Properties of generate_team_frame: aggregates                           *)
(***************************************************************************)
\* the sum of the values of a series, missing when one of them is missing
RECURSIVE Total(_)
Total(s) ==
    IF s = <<>> THEN 0
    ELSE IF isnan(Head(s)) \/ isnan(Total(Tail(s))) THEN NaN
    ELSE Head(s) + Total(Tail(s))

\* a sum divided by the number n of rows it was taken over, in the fixed
\* point of the averages
Average(total, n) == IF isnan(total) THEN NaN ELSE (Scale * total) \div n

\* the rows (1-based) first..last of a column of the frame returned
Games(col, first, last) == SubSeq(uret[col], first, last)

\* the three margins, each with its season and rolling columns
MarginFamilies ==
    {[game |-> "point_margin_game", season |-> "point_margin_season",
      season_avg |-> "point_margin_season_avg",
      ngames |-> "point_margin_ngames",
      ngames_avg |-> "point_margin_ngames_avg"],
     [game |-> "cover_margin_game", season |-> "cover_margin_season",
      season_avg |-> "cover_margin_season_avg",
      ngames |-> "cover_margin_ngames",
      ngames_avg |-> "cover_margin_ngames_avg"],
     [game |-> "overunder_margin", season |-> "overunder_season",
      season_avg |-> "overunder_season_avg",
      ngames |-> "overunder_ngames",
      ngames_avg |-> "overunder_ngames_avg"]}

\* C18: at every row i (1-based here) of a team frame and for each of the
\* three margins, the season column is the sum of the per-game values of
\* rows 1..i, the ngames column the sum over the last min(window, i) rows
\* ending at i, and the two averages are these sums divided by the number
\* of rows they were taken over.
C18_SeasonAndRolling ==
    TeamFrameReturned =>
        \A m \in MarginFamilies : \A i \in 1..NRows(uret) :
            LET n == Min(ucall.window, i)
            IN  /\ uret[m.season][i] = Total(Games(m.game, 1, i))
                /\ uret[m.season_avg][i]
                       = Average(Total(Games(m.game, 1, i)), i)
                /\ uret[m.ngames][i] = Total(Games(m.game, i - n + 1, i))
                /\ uret[m.ngames_avg][i]
                       = Average(Total(Games(m.game, i - n + 1, i)), n)

\* the three margins, each with its pair of outcome flags and its streak
\* aggregates
StreakFamilies ==
    {[game |-> "point_margin_game", won |-> "won_on_points",
      lost |-> "lost_on_points", streak |-> "point_margin_streak",
      streak_avg |-> "point_margin_streak_avg"],
     [game |-> "cover_margin_game", won |-> "won_on_spread",
      lost |-> "lost_on_spread", streak |-> "cover_margin_streak",
      streak_avg |-> "cover_margin_streak_avg"],
     [game |-> "overunder_margin", won |-> "over", lost |-> "under",
      streak |-> "overunder_streak", streak_avg |-> "overunder_streak_avg"]}

\* the length of the active run of a pair of flags at row i (1-based): the
\* run of the first flag if it is true there, else the run of the second
\* if that is true, else 1
ActiveRun(won, lost, i) ==
    IF uret[won][i] THEN TrailingRun(uret[won], i - 1)
    ELSE IF uret[lost][i] THEN TrailingRun(uret[lost], i - 1)
    ELSE 1

\* C19: at every row i of a team frame and for each of the three margins,
\* the streak aggregate is the sum of the per-game margin over the s most
\* recent rows ending at i, s being the length of the active run of the
\* pair of flags of the margin (1 when neither flag is true), and the
\* streak average is that sum divided by s.
C19_StreakAggregates ==
    TeamFrameReturned =>
        \A m \in StreakFamilies : \A i \in 1..NRows(uret) :
            LET s == ActiveRun(m.won, m.lost, i)
            IN  /\ uret[m.streak][i] = Total(Games(m.game, i - s + 1, i))
                /\ uret[m.streak_avg][i]
                       = Average(Total(Games(m.game, i - s + 1, i)), s)

(***************************************************************************)
(* Properties of the team partitions of a season                           *)
(***************************************************************************)
\* the columns of a game record
GameColumns ==
    {"season", "date", home_team, away_team, "home.score", "away.score",
     "line", "over_under"}

\* the game record in row i (1-based) of a frame
GameRecord(frame, i) == [c \in GameColumns |-> frame[c][i]]

\* the rows of the game frame of the season in which the team plays
RowsWith(team) ==
    {i \in 1..NRows(gf) : gf[home_team][i] = team \/ gf[away_team][i] = team}

\* C20: once the team frames of a season are built, the partition of every
\* team they were built for holds exactly the game records of the season
\* in which the team is the home or the away team, each as often as the
\* game frame holds it, and its rows are in ascending order of date,
\* whatever the order of the rows of the game table.
C20_SortedPartitions ==
    pc = "merge" =>
        \A t \in 1..Len(teams) :
            LET team == teams[t]
                tf == team_frames[team]
            IN  /\ NRows(tf) = Cardinality(RowsWith(team))
                /\ \A i \in RowsWith(team) :
                       Cardinality({k \in 1..NRows(tf) :
                           GameRecord(tf, k) = GameRecord(gf, i)})
                         = Cardinality({j \in RowsWith(team) :
                               GameRecord(gf, j) = GameRecord(gf, i)})
                /\ \A k \in 1..(NRows(tf) - 1) :
                       tf["date"][k] <= tf["date"][k + 1]

(***************************************************************************)
(* Properties of the merge loop: what it writes                            *)
(***************************************************************************)
\* the columns of the model frame that hold the statistics of a side
SideColumns(prefix) == {PrefixKey(prefix, key) : key \in Keys(mdict)}

\* C21: while the merge loop runs and when it is over, on the model-frame
\* row of every team's first game of the season every prefixed statistic
\* of the side the team plays is the schema default 0, the model frame has
\* the columns of the game frame and the home.- and away.-prefixed columns
\* only, and every column of the game frame (the game records and the
\* ground truth of the current game) is in the model frame as it is in the
\* game frame.
C21_FirstGameDefaults ==
    pc = "merge" =>
        /\ \A team \in SeasonTeams : \A key \in Keys(mdict) :
               mf[PrefixKey(SideOf(team, GamesOf(team)[1]), key)]
                 [GamesOf(team)[1]] = 0
        /\ Columns(mf) = Columns(gf) \cup SideColumns(team1_prefix)
                             \cup SideColumns(team2_prefix)
        /\ \A c \in Columns(gf) : mf[c] = gf[c]

(***************************************************************************)
(* main on tables of several seasons, with a season filter, and on game    *)
(* records with a result other than a home win or with a value missing     *)
(***************************************************************************)
\* a game record of these tables: in any season and on any day, A against
\* B on either side, the home team winning 1-0 as the favourite by one
\* point with an over/under total of 1; or, in season 1 on day 1 with A at
\* home, a record with a score, the line or the total missing, or an away
\* win 0-2 that goes over the total
SeasonRows ==
    {GameRow(s, d, pair[1], pair[2], 1, 0, 0 - 1, 1) :
        s \in 1..MaxSeason, d \in 1..MaxDate,
        pair \in {<<"A", "B">>, <<"B", "A">>}}
    \cup {GameRow(1, 1, "A", "B", NaN, 0, 0 - 1, 1),
          GameRow(1, 1, "A", "B", 1, 0, NaN, 1),
          GameRow(1, 1, "A", "B", 1, 0, 0 - 1, NaN),
          GameRow(1, 1, "A", "B", 0, 2, 0 - 1, 1)}

SeasonTables == UNION {[1..n -> SeasonRows] : n \in 1..MaxGames}

\* game_specs['seasons']: a list of seasons, each once, or the empty list
SeasonFilters ==
    {f \in UNION {[1..n -> 1..MaxSeason] : n \in 0..MaxSeason} :
        \A i, j \in 1..Len(f) : f[i] = f[j] => i = j}

\* main when the configuration and the game table are read
InitSeasons ==
    /\ upc = "idle" /\ ucall = <<>> /\ uret = <<>>
    /\ uarg = <<>> /\ uerr = "none"
    /\ train_date = 1 /\ predict_date = MaxDate
    /\ new_train_frame = <<>> /\ new_test_frame = <<>>
    /\ written = <<>> /\ error = ""
    /\ pc = "start"
    /\ \E rows \in SeasonTables : df = FrameOf(rows)
    /\ rolling_window = MaxWindow
    /\ seasons \in SeasonFilters
    /\ si = 0
    /\ gf = <<>> /\ teams = <<>> /\ team_frames = <<>> /\ mf = <<>>
    /\ cur = <<>>
    /\ ff = <<>>

\* an empty list of seasons stands for all the seasons of the table
DefaultSeasons ==
    /\ pc = "start"
    /\ seasons' = IF seasons = <<>> THEN Unique(df["season"]) ELSE seasons
    /\ pc' = "season"
    /\ UNCHANGED <<df, rolling_window, si, gf, teams, team_frames, mf, cur, ff>>
    /\ UNCHANGED <<uvars, svars>>

NextSeasons ==
    \/ DefaultSeasons
    \/ BuildGameFrame
    \/ BuildTeamFrames
    \/ MergeRow
    \/ DeltaAndAppend
    \/ EndSeasons

SpecSeasons == InitSeasons /\ [][NextSeasons]_vars

(***************************************************************************)
(* Properties of the game frame: the ground truth of the current game      *)
(***************************************************************************)
\* C22: once the team frames of a season are built, for every game record
\* of the season each of the nine ground-truth values of the game frame
\* (point_margin_game, won_on_points, lost_on_points, cover_margin_game,
\* won_on_spread, lost_on_spread, overunder_margin, over, under) equals the
\* value generate_team_frame computed for that game in the partition of the
\* home team, whether the scores, the line and the over/under total are
\* present or missing.
C22_GroundTruth ==
    pc = "merge" =>
        \A i \in 1..NRows(gf) :
            LET home == gf[home_team][i]
            IN  \A k \in 1..Len(GamesOf(home)) :
                    GamesOf(home)[k] = i =>
                        \A c \in Keys(game_dict) :
                            team_frames[home][c][k] = gf[c][i]

(***************************************************************************)
(* Properties of the season loop: the seasons are independent              *)
(***************************************************************************)
\* the game table with the records of one season only
OnlySeason(frame, season) ==
    TakeRows(frame, SelectSeq(Iota(NRows(frame)),
                              LAMBDA i : frame["season"][i] = season))

\* the merge loop from position c on, as one function of the model frame
RECURSIVE MergedFrom(_, _, _, _)
MergedFrom(frame, keys, frames, c) ==
    IF c.t > Len(keys) THEN frame
    ELSE LET team == keys[c.t]
             tf == frames[team]
             gindex == c.index + 1
             at_home == team = At(tf, home_team, gindex)
             matches == KeyMatches(frame,
                                   IF at_home THEN home_team ELSE away_team,
                                   team, At(tf, "date", gindex))
         IN  IF matches = <<>> THEN frame
             ELSE With(insert_model_data(frame, matches[1] - 1, mdict, tf,
                           c.index,
                           IF at_home THEN team1_prefix ELSE team2_prefix),
                       LAMBDA f : MergedFrom(f, keys, frames,
                                      NextMerge(keys, frames, c.t,
                                                c.index + 1)))

\* the model frame of a season when the table holds that season alone
SeasonAlone(season) ==
    LET g == GameFrame(OnlySeason(df, season), season)
        keys == GroupKeys(g)
        frames == TeamFrames(g, keys, rolling_window)
    IN  generate_delta_data(
            MergedFrom(ModelFrame(g), keys, frames,
                       NextMerge(keys, frames, 1, 0)),
            mdict, team1_prefix, team2_prefix)

\* these model frames for the first n seasons of the run, one below the other
RECURSIVE SeasonBlocks(_)
SeasonBlocks(n) ==
    IF n = 0 THEN <<>>
    ELSE ConcatRows(SeasonBlocks(n - 1), SeasonAlone(seasons[n]))

DateSorted ==
    \A i \in 1..(NRows(ucall.tf) - 1) :
        ucall.tf["date"][i] <= ucall.tf["date"][i + 1]

\* C24: in a team frame days_since_first_game at row i is the number of
\* days from the date of row 0 to the date of row i (0 at row 0);
\* days_since_previous_game is 0 at row 0 and at every later row the
\* difference of days_since_first_game from the row before; the sum of
\* days_since_previous_game over rows 0..i is days_since_first_game at row
\* i; and on a partition sorted by date neither is negative.
C24_DayOffsets ==
    TeamFrameReturned =>
        \A i \in Indices(uret) :
            LET first == At(uret, "days_since_first_game", i)
                previous == At(uret, "days_since_previous_game", i)
            IN  /\ first = At(ucall.tf, "date", i) - At(ucall.tf, "date", 0)
                /\ previous = IF i = 0 THEN 0
                              ELSE first
                                   - At(uret, "days_since_first_game", i - 1)
                /\ SeriesSum(SubSeq(uret["days_since_previous_game"],
                                    1, i + 1)) = first
                /\ DateSorted => first >= 0 /\ previous >= 0

C24_Witness ==
    /\ TeamFrameReturned
    /\ uret["date"] = <<1, 2, 4>>
    /\ uret["days_since_first_game"] = <<0, 1, 3>>
    /\ uret["days_since_previous_game"] = <<0, 1, 2>>

(***************************************************************************)
(* Properties of get_text_features                                         *)
(***************************************************************************)
TextReturned == upc = "returned" /\ ucall.fn = "get_text_features"

\* C25: a text column is factorized if its number of distinct values
\* exceeds the dummy limit; with that number at or below the limit it is
\* vectorized when vectorization is enabled and succeeds, and one-hot
\* encoded when vectorization is disabled.
C25_TextDispatch ==
    TextReturned =>
        /\ ucall.nvalues > ucall.dummy_limit =>
               /\ uret.log = "Factorization"
               /\ uret.new_features = Factorize(uarg)
        /\ ucall.nvalues <= ucall.dummy_limit =>
               /\ (ucall.vectorize
                     /\ Vocabulary(uarg, ucall.ngrams_max) # {}) =>
                      /\ uret.log = "Vectorization Succeeded"
                      /\ uret.new_features
                             = CountMatrix(uarg, ucall.ngrams_max)
               /\ ~ucall.vectorize =>
                      /\ uret.log = "One-Hot Encoding"
                      /\ uret.new_features = Dummies(uarg)

(***************************************************************************)
(* Properties of drop_features                                             *)
(***************************************************************************)
DropReturned == upc = "returned" /\ ucall.fn = "drop_features"

\* the names of the columns of a table
Names(X) == {X[k].name : k \in 1..Len(X)}

\* a column holds one and the same value in every row
ConstantValued(col) ==
    \A i, j \in 1..Len(col.values) : col.values[i] = col.values[j]

\* two columns hold the same values in the same order
Identical(a, b) == a.values = b.values

\* C26: after drop_features(X, drop) no column that remains is constant,
\* no two columns that remain are identical, every column removed was
\* named in drop, is constant or is identical to a column that remains,
\* and a column that is not named in drop, is not constant and is
\* identical to no column before it remains (the first of each group of
\* identical columns is kept); the columns that remain are in the order
\* they had.
C26_DropFeatures ==
    DropReturned =>
        /\ \A k \in 1..Len(uret) : ~ConstantValued(uret[k])
        /\ \A i, j \in 1..Len(uret) :
               i # j => ~Identical(uret[i], uret[j])
        /\ \A k \in 1..Len(ucall.X) :
               ucall.X[k].name \notin Names(uret) =>
                   \/ ucall.X[k].name \in ucall.drop
                   \/ ConstantValued(ucall.X[k])
                   \/ \E j \in 1..Len(uret) : Identical(ucall.X[k], uret[j])
        /\ \A k \in 1..Len(ucall.X) :
               (/\ ucall.X[k].name \notin ucall.drop
                /\ ~ConstantValued(ucall.X[k])
                /\ \A i \in 1..(k - 1) :
                       ~Identical(ucall.X[i], ucall.X[k]))
                   => ucall.X[k].name \in Names(uret)
        /\ uret = SelectSeq(ucall.X, LAMBDA col : col.name \in Names(uret))

(***************************************************************************)
(* Properties of generate_team_frame: a row depends on the games before    *)
(***************************************************************************)
\* the team frame of the first m games of the partition of the call
TeamFrameOfFirst(m) ==
    generate_team_frame(ucall.team, TakeRows(ucall.tf, Iota(m)),
                        home_team, away_team, ucall.window).frame

\* C27: the row at index i of a team frame depends on games 0..i of the
\* partition only: the team frame of the first m games of a partition has,
\* in every column, at each of its rows the value the team frame of the
\* whole partition has at that row.
C27_PrefixDeterminism ==
    TeamFrameReturned =>
        \A m \in 1..(NRows(ucall.tf) - 1) :
            \A first \in {TeamFrameOfFirst(m)} :
                \A c \in Columns(uret) : \A i \in 1..m :
                    first[c][i] = uret[c][i]

(***************************************************************************)
(* Properties of the merge loop: both sides of every game                  *)
(***************************************************************************)
\* the games a side of a model-frame row stands for: wins, losses and ties
GamesCounted(side, r) ==
    mf[PrefixKey(side, "wins")][r] + mf[PrefixKey(side, "losses")][r]
        + mf[PrefixKey(side, "ties")][r]

\* C28: after the merge loop, on every row of the model frame and for each
\* side, wins + losses + ties of the side is the number of games the team
\* of that side has in the season before the game of the row (0 for its
\* first game), for every team of the season, the teams that are never
\* the home team included.
C28_BothSides ==
    MergeDone =>
        \A r \in 1..NRows(mf) : \A side \in {team1_prefix, team2_prefix} :
            GamesCounted(side, r)
                = Cardinality({i \in RowsWith(mf[PrefixKey(side, "team")][r]) :
                                  i < r})

(***************************************************************************)
(* Properties of the merge loop: the streaks it writes                     *)
(***************************************************************************)
\* the length of the run of an outcome of the team that ends with its last
\* game before the game of row r of the model frame, 0 if it has none
RunBefore(team, flag, r) ==
    LET before == Cardinality({i \in RowsWith(team) : i < r})
    IN  IF before = 0 THEN 0
        ELSE TrailingRun(team_frames[team][flag], before - 1)

\* C29: every pass of the merge loop writes, in each of the six streak
\* columns of the side the team plays, the length of the trailing run of
\* that outcome over the games of the team before the game of the row it
\* writes to.
C29_ExactStreaks ==
    [][(MergePending /\ MergeKeyMatches # <<>>) =>
          LET team == teams[cur.t]
              r == MergeKeyMatches[1]
          IN  \A fs \in StreakColumns :
                  mf'[PrefixKey(SideOf(team, r), fs[2])][r]
                      = RunBefore(team, fs[1], r)]_vars

(***************************************************************************)
(* Properties of generate_team_frame: every game is counted once           *)
(***************************************************************************)
\* C30: in every team frame returned, wins + losses + ties at row i (from
\* 0) is i + 1, each of the three counters is at every row at least what
\* it is one row before, and the frame has the rows of the partition
\* passed, as many and in the same order.
C30_EveryGameCounted ==
    TeamFrameReturned =>
        /\ NRows(uret) = NRows(ucall.tf)
        /\ \A c \in Columns(ucall.tf) : uret[c] = ucall.tf[c]
        /\ \A i \in Indices(uret) :
               /\ At(uret, "wins", i) + At(uret, "losses", i)
                      + At(uret, "ties", i) = i + 1
               /\ \A c \in {"wins", "losses", "ties"} :
                      At(uret, c, i) >= Previous(uret, c, i)

C30_Witness ==
    /\ TeamFrameReturned
    /\ uret["wins"] = <<0, 1, 1>>
    /\ uret["losses"] = <<1, 1, 2>>
    /\ uret["ties"] = <<0, 0, 0>>
    /\ uret[home_team] = <<"A", "B", "A">>

====
